---- MODULE Spec2Model ----
(***************************************************************************)
(* Pixel-classification and contrast-statistics engine of the symbol       *)
(* contrast audit, on its two analysis paths:                              *)
(*   "batch" : analyzeOne / main of the command line tool                  *)
(*             (src/unnamed/part_000)                                      *)
(*   "web"   : analyze / runAnalysis of the browser page (src/web/app.js)  *)
(*                                                                         *)
(* Numbers.  Pixels are RGBA8 records.  Relative luminance is kept in      *)
(* 1/100000ths and a contrast ratio in thousandths (21000 is 21:1), both    *)
(* rounded down; a percentile fraction p is a pair <<num, den>> and a      *)
(* percentile value a pair <<num, den>> as well, so that the               *)
(* interpolation of percentile() is exact.  opts.nan names the numeric      *)
(* options that parseFloat could not read (their value is NaN); every      *)
(* comparison with such an option is false, as in the source language.     *)
(***************************************************************************)
EXTENDS Integers, Sequences, FiniteSets, TLC

VARIABLES
  path,      \* "batch" or "web": which of the two implementations runs
  img,       \* the decoded pixel buffer [w, h, px]
  opts,      \* the options of this analysis
  pc,        \* position of the running specification
  bg,        \* background mask during the flood fill: pixel index -> BOOLEAN
  q,         \* the worklist: batch stack `q`, web array `queue` up to qTail
  qHead,     \* web read position in `queue` (always 0 on the batch path)
  result,    \* what analyzeOne / analyze returned
  sIn,       \* input of one statistics computation
  sOut,      \* its output
  argv,      \* the parsed command line of a batch run
  files,     \* the files of a batch run, in listing order
  results,   \* main's `results` array
  cursor,    \* position of main's `for (const f of files)` loop
  currentImage,  \* the page's `currentImage`
  currentMask,   \* the page's `currentMask`
  inputs,        \* the values of the page's option inputs
  display,       \* what the page shows: status, file name, statistics, canvases
  loading,       \* the handleFile calls suspended at `await loadFile(file)`
  timer,         \* debounce's `t` and the timeouts that window holds
  hist           \* history of the page's events, for the properties only

vars == <<path, img, opts, pc, bg, q, qHead, result, sIn, sOut, argv, files, results, cursor,
          currentImage, currentMask, inputs, display, loading, timer, hist>>

pageVars == <<currentImage, currentMask, inputs, display, loading, timer, hist>>

engineVars == <<path, img, opts, pc, bg, q, qHead, result, sIn, sOut, argv, files, results, cursor>>

(***************************************************************************)
(* Bounds of the model.                                                    *)
(***************************************************************************)
MaxW == 3
MaxH == 3
MaxOdd == 2
MaxRadius == 1
MaxLen == 3
MaxFiles == 2
MaxLevel == 3

(***************************************************************************)
(* Defaults of the options.                                                *)
(***************************************************************************)
DefaultNearBgDist == 160
DefaultAlphaBg == 10
DefaultMinAlpha == 200
DefaultThreshold == 3000
DefaultMaxPctBelow == 2


Paths == {"batch", "web"}

(***************************************************************************)
(* Pixels and images.                                                      *)
(***************************************************************************)
Px(r, g, b, a) == [r |-> r, g |-> g, b |-> b, a |-> a]

White == <<255, 255, 255>>
Black == <<0, 0, 0>>

Wh == Px(255, 255, 255, 255)   \* opaque white
Bk == Px(0, 0, 0, 255)         \* opaque black
Ye == Px(255, 255, 0, 255)     \* opaque yellow: far from white, low contrast on it
Tr == Px(0, 0, 0, 0)           \* fully transparent
Se == Px(0, 0, 0, 100)         \* semi-transparent black fringe

\* <<base, odd>>: a picture is the base colour with a few pixels of the odd one
Artwork == { <<Wh, Bk>>, <<Bk, Wh>>, <<Wh, Se>>, <<Tr, Bk>>, <<Bk, Ye>> }

Total(im) == im.w * im.h
Pixels(im) == 0 .. (Total(im) - 1)
XOf(im, p) == p % im.w
YOf(im, p) == p \div im.w
Idx(im, x, y) == y * im.w + x

\* pictures are one pixel wide or MaxW wide, and 1 .. MaxH high
MkImage(w, h, base, odd, S) ==
  [w |-> w, h |-> h, px |-> [p \in 0 .. (w * h - 1) |-> IF p \in S THEN odd ELSE base]]

OddSets(n) == { S \in SUBSET (0 .. (n - 1)) : Cardinality(S) <= MaxOdd }

Images ==
  UNION { UNION { { MkImage(w, h, a[1], a[2], S) : S \in OddSets(w * h) }
                  : a \in Artwork }
          : w \in {1, MaxW}, h \in 1 .. MaxH }

(***************************************************************************)
(* Near-background predicate (isNearBg).  Math.sqrt(d2) <= nearBgDist is   *)
(* compared on the squares; a negative distance accepts nothing.           *)
(***************************************************************************)
Sq(n) == n * n

\* IsNearBg without the alpha cutoff
IsNearBgNoAlpha(px, o) ==
  /\ o.nearBgDist >= 0
  /\ Sq(o.segBg[1] - px.r) + Sq(o.segBg[2] - px.g) + Sq(o.segBg[3] - px.b)
       <= Sq(o.nearBgDist)

IsNearBg(px, o) ==
  \/ px.a <= o.alphaBg
  \/ /\ o.nearBgDist >= 0
     /\ Sq(o.segBg[1] - px.r) + Sq(o.segBg[2] - px.g) + Sq(o.segBg[3] - px.b)
          <= Sq(o.nearBgDist)

NearBgAt(im, o, p) == IsNearBg(im.px[p], o)

(***************************************************************************)
(* Tier 1: border-seeded flood fill.  A fill state is [bg, q, qHead].      *)
(* The batch stack holds [x, y] pairs; the pair is kept as its index       *)
(* y * width + x, from which x and y are recovered.                        *)
(***************************************************************************)
EmptyFill(im) == [bg |-> [p \in Pixels(im) |-> FALSE], q |-> <<>>, qHead |-> 0]

\* PushIfWeb without the `if (bg[idx]) return` test
PushIfWebRequeues(im, o, st, p) ==
  IF NearBgAt(im, o, p)
  THEN [st EXCEPT !.bg[p] = TRUE, !.q = Append(@, p)]
  ELSE st

\* web pushIf(idx)
PushIfWeb(im, o, st, p) ==
  IF st.bg[p] THEN st
  ELSE IF NearBgAt(im, o, p)
       THEN [st EXCEPT !.bg[p] = TRUE, !.q = Append(@, p)]
       ELSE st

\* batch pushIf(x, y)
PushIfBatch(im, o, st, x, y) ==
  IF x < 0 \/ y < 0 \/ x >= im.w \/ y >= im.h THEN st
  ELSE LET p == Idx(im, x, y)
       IN IF st.bg[p] THEN st
          ELSE IF NearBgAt(im, o, p)
               THEN [st EXCEPT !.bg[p] = TRUE, !.q = Append(@, p)]
               ELSE st

\* the two seeding loops, as the list of pushIf calls in program order
SeedCalls(im) ==
  [k \in 1 .. (2 * im.w) |->
     IF k % 2 = 1 THEN <<(k - 1) \div 2, 0>> ELSE <<(k - 1) \div 2, im.h - 1>>]
  \o
  [k \in 1 .. (2 * im.h) |->
     IF k % 2 = 1 THEN <<0, (k - 1) \div 2>> ELSE <<im.w - 1, (k - 1) \div 2>>]

RECURSIVE PushAll(_, _, _, _, _)
PushAll(pth, im, o, st, calls) ==
  IF calls = <<>> THEN st
  ELSE LET c == Head(calls)
           nx == IF pth = "batch"
                 THEN PushIfBatch(im, o, st, c[1], c[2])
                 ELSE PushIfWeb(im, o, st, Idx(im, c[1], c[2]))
       IN PushAll(pth, im, o, nx, Tail(calls))

SeedFill(pth, im, o) == PushAll(pth, im, o, EmptyFill(im), SeedCalls(im))

Pending(pth, st) == IF pth = "batch" THEN Len(st.q) > 0 ELSE st.qHead < Len(st.q)

\* StepBatch with the upward neighbour pushIf(x, y - 1) forgotten
StepBatchNoUp(im, o, st) ==
  LET p == st.q[Len(st.q)]
      x == XOf(im, p)
      y == YOf(im, p)
      popped == [st EXCEPT !.q = SubSeq(@, 1, Len(@) - 1)]
  IN PushAll("batch", im, o, popped, << <<x + 1, y>>, <<x - 1, y>>, <<x, y + 1>> >>)

\* one iteration of `while (q.length)`: pop the last entry, visit 4 neighbours
StepBatch(im, o, st) ==
  LET p == st.q[Len(st.q)]
      x == XOf(im, p)
      y == YOf(im, p)
      popped == [st EXCEPT !.q = SubSeq(@, 1, Len(@) - 1)]
  IN PushAll("batch", im, o, popped,
             << <<x + 1, y>>, <<x - 1, y>>, <<x, y + 1>>, <<x, y - 1>> >>)

\* StepWeb with the left neighbour pushIf(idx - 1) forgotten
StepWebNoLeft(im, o, st) ==
  LET p == st.q[st.qHead + 1]
      x == XOf(im, p)
      y == YOf(im, p)
      taken == [st EXCEPT !.qHead = @ + 1]
      calls == (IF x < im.w - 1 THEN << <<x + 1, y>> >> ELSE <<>>)
               \o (IF y > 0 THEN << <<x, y - 1>> >> ELSE <<>>)
               \o (IF y < im.h - 1 THEN << <<x, y + 1>> >> ELSE <<>>)
  IN PushAll("web", im, o, taken, calls)

\* one iteration of `while (qHead < qTail)`: read queue[qHead++], visit neighbours
StepWeb(im, o, st) ==
  LET p == st.q[st.qHead + 1]
      x == XOf(im, p)
      y == YOf(im, p)
      taken == [st EXCEPT !.qHead = @ + 1]
      calls == (IF x > 0 THEN << <<x - 1, y>> >> ELSE <<>>)
               \o (IF x < im.w - 1 THEN << <<x + 1, y>> >> ELSE <<>>)
               \o (IF y > 0 THEN << <<x, y - 1>> >> ELSE <<>>)
               \o (IF y < im.h - 1 THEN << <<x, y + 1>> >> ELSE <<>>)
  IN PushAll("web", im, o, taken, calls)

FillStepOf(pth, im, o, st) ==
  IF pth = "batch" THEN StepBatch(im, o, st) ELSE StepWeb(im, o, st)

RECURSIVE RunFill(_, _, _, _)
RunFill(pth, im, o, st) ==
  IF Pending(pth, st) THEN RunFill(pth, im, o, FillStepOf(pth, im, o, st)) ELSE st

\* the background mask after tier 1, as a set of pixel indices
Tier1Mask(pth, im, o) ==
  LET st == RunFill(pth, im, o, SeedFill(pth, im, o))
  IN { p \in Pixels(im) : st.bg[p] }

(***************************************************************************)
(* Contrast (srgbToLinear, relLuminance, composite, contrastRatioPixelVsBg)*)
(* LinTable[c + 1] is srgbToLinear(c / 255) in 1/100000ths, c in 0..255.   *)
(***************************************************************************)
LinTable ==
  <<
     0, 30, 61, 91, 121, 152, 182, 212,
     243, 273, 304, 335, 368, 402, 439, 478,
     518, 561, 605, 651, 700, 750, 802, 857,
     913, 972, 1033, 1096, 1161, 1229, 1298, 1370,
     1444, 1521, 1600, 1681, 1764, 1850, 1938, 2029,
     2122, 2217, 2315, 2416, 2519, 2624, 2732, 2843,
     2956, 3071, 3190, 3310, 3434, 3560, 3689, 3820,
     3955, 4092, 4231, 4374, 4519, 4667, 4817, 4971,
     5127, 5286, 5448, 5613, 5781, 5951, 6125, 6301,
     6480, 6663, 6848, 7036, 7227, 7421, 7619, 7819,
     8022, 8228, 8438, 8650, 8866, 9084, 9306, 9531,
     9759, 9990, 10224, 10462, 10702, 10946, 11193, 11444,
     11697, 11954, 12214, 12477, 12744, 13014, 13287, 13563,
     13843, 14126, 14413, 14703, 14996, 15293, 15593, 15896,
     16203, 16513, 16827, 17144, 17465, 17789, 18116, 18447,
     18782, 19120, 19462, 19807, 20156, 20508, 20864, 21223,
     21586, 21953, 22323, 22697, 23074, 23455, 23840, 24228,
     24620, 25016, 25415, 25818, 26225, 26636, 27050, 27468,
     27889, 28315, 28744, 29177, 29614, 30054, 30499, 30947,
     31399, 31855, 32314, 32778, 33245, 33716, 34191, 34670,
     35153, 35640, 36131, 36625, 37124, 37626, 38133, 38643,
     39157, 39676, 40198, 40724, 41254, 41789, 42327, 42869,
     43415, 43966, 44520, 45079, 45641, 46208, 46778, 47353,
     47932, 48515, 49102, 49693, 50289, 50888, 51492, 52100,
     52712, 53328, 53948, 54572, 55201, 55834, 56471, 57112,
     57758, 58408, 59062, 59720, 60383, 61050, 61721, 62396,
     63076, 63760, 64448, 65141, 65837, 66539, 67244, 67954,
     68669, 69387, 70110, 70838, 71569, 72306, 73046, 73791,
     74540, 75294, 76052, 76815, 77582, 78354, 79130, 79910,
     80695, 81485, 82279, 83077, 83880, 84687, 85499, 86316,
     87137, 87962, 88792, 89627, 90466, 91310, 92158, 93011,
     93869, 94731, 95597, 96469, 97345, 98225, 99110, 100000
  >>

SrgbToLinear(c8) == LinTable[c8 + 1]

RelLuminance(r8, g8, b8) ==
  (2126 * SrgbToLinear(r8) + 7152 * SrgbToLinear(g8) + 722 * SrgbToLinear(b8)) \div 10000

\* CompositeChannel that hands the channel back without blending
CompositeChannelNoBlend(c8, a8, bgc) == c8

\* Math.round(a * c8 + (1 - a) * bgc) with a = a8 / 255, on integers
CompositeChannel(c8, a8, bgc) == (2 * (a8 * c8 + (255 - a8) * bgc) + 255) \div 510

Composite(px, bgColor) ==
  << CompositeChannel(px.r, px.a, bgColor[1]),
     CompositeChannel(px.g, px.a, bgColor[2]),
     CompositeChannel(px.b, px.a, bgColor[3]) >>

ContrastRatioPixelVsBg(px, bgColor) ==
  LET c == Composite(px, bgColor)
      Lp == RelLuminance(c[1], c[2], c[3])
      Lb == RelLuminance(bgColor[1], bgColor[2], bgColor[3])
      L1 == IF Lp >= Lb THEN Lp ELSE Lb
      L2 == IF Lp >= Lb THEN Lb ELSE Lp
  IN ((L1 + 5000) * 1000) \div (L2 + 5000)

(***************************************************************************)
(* Statistics (percentile, statsForRatios, passByStats).  A statistic is   *)
(* a fraction <<num, den>>, or Null where the source has null / undefined. *)
(***************************************************************************)
Null == <<>>

Frac(n) == <<n, 1>>

\* a >= t for a statistic a and the threshold option (in thousandths)
GeThreshold(a, o) == a # Null /\ "threshold" \notin o.nan /\ a[1] >= o.threshold * a[2]

\* x < threshold for one ratio x
BelowThreshold(x, o) == "threshold" \notin o.nan /\ x < o.threshold

RECURSIVE InsertAsc(_, _)
InsertAsc(s, x) ==
  IF s = <<>> THEN <<x>>
  ELSE IF x < Head(s) THEN <<x>> \o s
       ELSE <<Head(s)>> \o InsertAsc(Tail(s), x)

RECURSIVE SortAsc(_)
SortAsc(s) == IF s = <<>> THEN <<>> ELSE InsertAsc(SortAsc(SubSeq(s, 1, Len(s) - 1)), s[Len(s)])

\* percentile(sorted, p) for p = <<pn, pd>>; sorted[lo] of the source is sorted[lo + 1]
Percentile(sorted, p) ==
  IF Len(sorted) = 0 THEN Null
  ELSE LET t == (Len(sorted) - 1) * p[1]
           lo == t \div p[2]
           rem == t % p[2]
           hi == IF rem = 0 THEN lo ELSE lo + 1
       IN IF lo < 0 \/ hi > Len(sorted) - 1 THEN Null
          ELSE IF lo = hi THEN Frac(sorted[lo + 1])
          ELSE << sorted[lo + 1] * (p[2] - rem) + sorted[hi + 1] * rem, p[2] >>

CountBelow(ratios, o) == Cardinality({ i \in 1 .. Len(ratios) : BelowThreshold(ratios[i], o) })

\* statsForRatios(ratios, p, threshold) and the stats object of analyze
StatsForRatios(ratios, o) ==
  IF Len(ratios) = 0
  THEN [count |-> 0, min |-> Null, pX |-> Null, median |-> Null, pctBelow |-> Frac(0)]
  ELSE LET s == SortAsc(ratios)
       IN [ count |-> Len(ratios),
            min |-> Frac(s[1]),
            pX |-> Percentile(s, o.p),
            median |-> Percentile(s, <<1, 2>>),
            pctBelow |-> << 100 * CountBelow(ratios, o), Len(ratios) >> ]

\* PassByStats with st.pX > threshold in place of >=
PassByStatsStrict(st, o) ==
  IF st.count = 0 THEN FALSE
  ELSE /\ st.pX # Null /\ "threshold" \notin o.nan /\ st.pX[1] > o.threshold * st.pX[2]
       /\ st.pctBelow[1] <= o.maxPctBelow * st.pctBelow[2]

\* st.pX >= threshold && st.pctBelow <= maxPctBelow, after the count test
PassByStats(st, o) ==
  IF st.count = 0 THEN FALSE
  ELSE /\ GeThreshold(st.pX, o)
       /\ st.pctBelow[1] <= o.maxPctBelow * st.pctBelow[2]

\* the stats object of analyze: sort in place, then the same five numbers
StatsWeb(ratios, o) ==
  LET s == SortAsc(ratios)
  IN [ count |-> Len(s),
       min |-> IF Len(s) > 0 THEN Frac(s[1]) ELSE Null,
       pX |-> Percentile(s, o.p),
       median |-> Percentile(s, <<1, 2>>),
       pctBelow |-> IF Len(s) = 0 THEN Frac(0) ELSE << 100 * CountBelow(s, o), Len(s) >> ]

\* stats.count > 0 && stats.pX >= opts.threshold && stats.pctBelow <= opts.maxPctBelow
PassWeb(st, o) ==
  /\ st.count > 0
  /\ GeThreshold(st.pX, o)
  /\ st.pctBelow[1] <= o.maxPctBelow * st.pctBelow[2]

\* Overall with passes.some(Boolean) taken whatever the flag says
OverallAlwaysAny(requireBoth, passes) == \E i \in 1 .. Len(passes) : passes[i]

\* passes.every(Boolean) / passes.some(Boolean)
Overall(requireBoth, passes) ==
  IF requireBoth
  THEN \A i \in 1 .. Len(passes) : passes[i]
  ELSE \E i \in 1 .. Len(passes) : passes[i]

(***************************************************************************)
(* Segmentation fallbacks, edge band and sample mask.                      *)
(***************************************************************************)
\* web only: `if (bgCount === 0)` re-classify every pixel by the predicate
Tier2Mask(im, o, tier1) ==
  IF Cardinality(tier1) = 0 THEN { p \in Pixels(im) : NearBgAt(im, o, p) } ELSE tier1

\* EdgeBand with the diagonal offsets of the neighbourhood scan left out
EdgeBandNoDiagonal(im, bgMask, radius) ==
  { p \in Pixels(im) \ bgMask :
      \E dy \in (0 - radius) .. radius, dx \in (0 - radius) .. radius :
        LET xx == XOf(im, p) + dx
            yy == YOf(im, p) + dy
        IN /\ dx = 0 \/ dy = 0
           /\ ~(xx < 0 \/ yy < 0 \/ xx >= im.w \/ yy >= im.h)
           /\ Idx(im, xx, yy) \in bgMask }

\* foreground pixels with a background pixel in the (2r+1)^2 neighbourhood
EdgeBand(im, bgMask, radius) ==
  { p \in Pixels(im) \ bgMask :
      \E dy \in (0 - radius) .. radius, dx \in (0 - radius) .. radius :
        LET xx == XOf(im, p) + dx
            yy == YOf(im, p) + dy
        IN /\ ~(xx < 0 \/ yy < 0 \/ xx >= im.w \/ yy >= im.h)
           /\ Idx(im, xx, yy) \in bgMask }

\* web only: the border band taken when no background was found at all
BorderBand(im, radius) ==
  LET edge == IF radius > 0 THEN radius ELSE 0
  IN { p \in Pixels(im) :
         \/ XOf(im, p) <= edge
         \/ YOf(im, p) <= edge
         \/ XOf(im, p) >= im.w - 1 - edge
         \/ YOf(im, p) >= im.h - 1 - edge }

BandWeb(im, o, bgMask) ==
  IF Cardinality(bgMask) = 0 THEN BorderBand(im, o.bandRadius)
  ELSE EdgeBand(im, bgMask, o.bandRadius)

\* SampleMask with the "all" mode falling through to the band
SampleMaskAllIsBand(im, o, bgMask, band) ==
  IF o.sampleMode = "stroke"
  THEN { p \in band :
           RelLuminance(im.px[p].r, im.px[p].g, im.px[p].b) <= o.strokeLumaMax }
  ELSE band

\* web only: the mask that sampleMode selects
SampleMask(im, o, bgMask, band) ==
  IF o.sampleMode = "all" THEN Pixels(im) \ bgMask
  ELSE IF o.sampleMode = "stroke"
       THEN { p \in band :
                RelLuminance(im.px[p].r, im.px[p].g, im.px[p].b) <= o.strokeLumaMax }
       ELSE band

\* the pixels of a set in row-major scan order
RECURSIVE ScanFrom(_, _, _)
ScanFrom(S, p, n) ==
  IF p >= n THEN <<>>
  ELSE (IF p \in S THEN <<p>> ELSE <<>>) \o ScanFrom(S, p + 1, n)

ScanOrder(im, S) == ScanFrom(S, 0, Total(im))

RatiosOf(im, scored, bgColor) ==
  [k \in 1 .. Len(scored) |-> ContrastRatioPixelVsBg(im.px[scored[k]], bgColor)]

\* index of the first strictly smallest ratio (`if (cr < worst)`), 0 if none
WorstAt(ratios) ==
  IF Len(ratios) = 0 THEN 0
  ELSE CHOOSE k \in 1 .. Len(ratios) :
         /\ \A j \in 1 .. Len(ratios) : ratios[k] <= ratios[j]
         /\ \A j \in 1 .. (k - 1) : ratios[j] > ratios[k]

(***************************************************************************)
(* analyzeOne (batch): one evaluation per entry of opts.backgrounds, over  *)
(* the edge band; no fallback tier, no sample mode, no alpha gate.         *)
(***************************************************************************)
CollectRatios(im, o, mask, bgColor) ==
  LET scored == ScanOrder(im, mask)
      ratios == RatiosOf(im, scored, bgColor)
      st == StatsForRatios(ratios, o)
      k == WorstAt(ratios)
  IN [ stats |-> st,
       pass |-> PassByStats(st, o),
       scored |-> scored,
       ratios |-> ratios,
       worst |-> IF k = 0 THEN Null ELSE Frac(ratios[k]),
       worstPixel |-> IF k = 0 THEN Null ELSE <<scored[k]>> ]

AnalyzeOneResult(im, o) ==
  IF im.w = 0 \/ im.h = 0 THEN [kind |-> "error"]
  ELSE LET bgMask == Tier1Mask("batch", im, o)
           band == EdgeBand(im, bgMask, o.bandRadius)
           perBg == [i \in 1 .. Len(o.backgrounds) |->
                       CollectRatios(im, o, band, o.backgrounds[i])]
           passes == [i \in 1 .. Len(o.backgrounds) |-> perBg[i].pass]
       IN [ kind |-> "ok",
            tier1 |-> bgMask,
            bgMask |-> bgMask,
            band |-> band,
            mask |-> band,
            maskCount |-> Cardinality(band),
            perBg |-> perBg,
            failing |-> {},
            overall |-> Overall(o.requireBoth, passes) ]

(***************************************************************************)
(* analyze (web): one background opts.bg, kept as opts.backgrounds[1].     *)
(***************************************************************************)
AnalyzeResult(im, o) ==
  LET tier1 == Tier1Mask("web", im, o)
      bgMask == Tier2Mask(im, o, tier1)
      band == BandWeb(im, o, bgMask)
      mask == SampleMask(im, o, bgMask, band)
      scored == ScanOrder(im, { p \in mask : ~(im.px[p].a < o.minAlpha) })
      ratios == RatiosOf(im, scored, o.backgrounds[1])
      st == StatsWeb(ratios, o)
      pass == PassWeb(st, o)
  IN [ kind |-> "ok",
       tier1 |-> tier1,
       bgMask |-> bgMask,
       band |-> band,
       mask |-> mask,
       maskCount |-> Cardinality(mask),
       perBg |-> << [ stats |-> st, pass |-> pass, scored |-> scored,
                      ratios |-> ratios, worst |-> Null, worstPixel |-> Null ] >>,
       failing |-> { scored[k] : k \in { j \in 1 .. Len(scored) : BelowThreshold(ratios[j], o) } },
       overall |-> pass ]

(***************************************************************************)
(* parseColor.  A text is a sequence of one-character strings.  The label  *)
(* of the returned colour is a display string and is left out.             *)
(***************************************************************************)
HexDigits == <<"0", "1", "2", "3", "4", "5", "6", "7", "8", "9", "a", "b", "c", "d", "e", "f">>
UpperCase == <<"A", "B", "C", "D", "E", "F", "G", "H", "I", "J", "K", "L", "M",
               "N", "O", "P", "Q", "R", "S", "T", "U", "V", "W", "X", "Y", "Z">>
LowerCase == <<"a", "b", "c", "d", "e", "f", "g", "h", "i", "j", "k", "l", "m",
               "n", "o", "p", "q", "r", "s", "t", "u", "v", "w", "x", "y", "z">>

IsHexDigit(c) == \E i \in 1 .. 16 : HexDigits[i] = c
HexVal(c) == (CHOOSE i \in 1 .. 16 : HexDigits[i] = c) - 1
IsDigit(c) == \E i \in 1 .. 10 : HexDigits[i] = c
IsSpace(c) == c \in {" ", "\t", "\n", "\r"}

ToLowerChar(c) ==
  IF \E i \in 1 .. 26 : UpperCase[i] = c
  THEN LowerCase[CHOOSE i \in 1 .. 26 : UpperCase[i] = c]
  ELSE c

ToLowerCase(s) == [i \in 1 .. Len(s) |-> ToLowerChar(s[i])]

RECURSIVE TrimLeft(_)
TrimLeft(s) == IF s # <<>> /\ IsSpace(Head(s)) THEN TrimLeft(Tail(s)) ELSE s

RECURSIVE TrimRight(_)
TrimRight(s) ==
  IF s # <<>> /\ IsSpace(s[Len(s)]) THEN TrimRight(SubSeq(s, 1, Len(s) - 1)) ELSE s

Trim(s) == TrimRight(TrimLeft(s))

\* s.split(","): the pieces between commas
RECURSIVE SplitComma(_)
SplitComma(s) ==
  IF \A i \in 1 .. Len(s) : s[i] # ","
  THEN <<s>>
  ELSE LET k == CHOOSE i \in 1 .. Len(s) : s[i] = "," /\ \A j \in 1 .. (i - 1) : s[j] # ","
       IN <<SubSeq(s, 1, k - 1)>> \o SplitComma(SubSeq(s, k + 1, Len(s)))

\* /^\d{1,3}$/
IsChannelText(s) == Len(s) \in 1 .. 3 /\ \A i \in 1 .. Len(s) : IsDigit(s[i])

RECURSIVE ParseDigits(_)
ParseDigits(s) ==
  IF s = <<>> THEN 0 ELSE 10 * ParseDigits(SubSeq(s, 1, Len(s) - 1)) + HexVal(s[Len(s)])

\* Math.min(255, parseInt(text, 10))
ClampChannel(s) == IF ParseDigits(s) > 255 THEN 255 ELSE ParseDigits(s)

Colour(rgb) == [ok |-> TRUE, rgb |-> rgb]
InvalidColour == [ok |-> FALSE]

IsChannelTriple(parts) == Len(parts) = 3 /\ \A i \in 1 .. 3 : IsChannelText(parts[i])

ChannelTriple(parts) ==
  Colour(<<ClampChannel(parts[1]), ClampChannel(parts[2]), ClampChannel(parts[3])>>)

ParseColor(input) ==
  LET s == ToLowerCase(Trim(input))
      hex == Tail(s)
      rgbParts == [i \in 1 .. Len(SplitComma(SubSeq(s, 5, Len(s) - 1))) |->
                     Trim(SplitComma(SubSeq(s, 5, Len(s) - 1))[i])]
      parts == [i \in 1 .. Len(SplitComma(s)) |-> Trim(SplitComma(s)[i])]
  IN IF s = <<"w", "h", "i", "t", "e">> THEN Colour(White)
     ELSE IF s = <<"b", "l", "a", "c", "k">> THEN Colour(Black)
     ELSE IF /\ Len(s) \in {4, 7}
             /\ s[1] = "#"
             /\ \A i \in 2 .. Len(s) : IsHexDigit(s[i])
     THEN IF Len(hex) = 3
          THEN Colour(<< 17 * HexVal(hex[1]), 17 * HexVal(hex[2]), 17 * HexVal(hex[3]) >>)
          ELSE Colour(<< 16 * HexVal(hex[1]) + HexVal(hex[2]),
                         16 * HexVal(hex[3]) + HexVal(hex[4]),
                         16 * HexVal(hex[5]) + HexVal(hex[6]) >>)
     ELSE IF /\ Len(s) >= 5
             /\ SubSeq(s, 1, 4) = <<"r", "g", "b", "(">>
             /\ s[Len(s)] = ")"
             /\ IsChannelTriple(rgbParts)
     THEN ChannelTriple(rgbParts)
     ELSE IF IsChannelTriple(parts) THEN ChannelTriple(parts)
     ELSE InvalidColour

(***************************************************************************)
(* Options.                                                                *)
(***************************************************************************)
DefaultOpts ==
  [ segBg |-> White, nearBgDist |-> DefaultNearBgDist, alphaBg |-> DefaultAlphaBg,
    bandRadius |-> 1, minAlpha |-> 0, sampleMode |-> "band",
    threshold |-> DefaultThreshold, maxPctBelow |-> DefaultMaxPctBelow,
    strokeLumaMax |-> 20000, p |-> <<1, 20>>, backgrounds |-> <<White, Black>>,
    requireBoth |-> FALSE, nan |-> {} ]

FillOpts == { [DefaultOpts EXCEPT !.segBg = c] : c \in {White, Black} }

\* the command line: --bandRadius, --requireBoth, and a --minAlpha that is not read
BatchOpts ==
  { [DefaultOpts EXCEPT !.bandRadius = r, !.minAlpha = m, !.requireBoth = b] :
      r \in {0, MaxRadius}, m \in {DefaultMinAlpha}, b \in BOOLEAN }

\* the page: one background colour, a sample mode, a minimum alpha
WebOpts ==
  { [DefaultOpts EXCEPT !.bandRadius = r, !.minAlpha = m, !.sampleMode = sm,
                        !.backgrounds = <<White>>] :
      r \in {0, MaxRadius}, m \in {0, DefaultMinAlpha}, sm \in {"band", "all", "stroke"} }

\* pass-rule parameters: percentile fraction, threshold, allowed percent below
StatOpts ==
  { [DefaultOpts EXCEPT !.p = f, !.threshold = t, !.maxPctBelow = m] :
      f \in { <<0, 1>>, <<1, 20>>, <<1, 2>>, <<1, 1>> },
      t \in { DefaultThreshold, 4500 },
      m \in { 0, DefaultMaxPctBelow, 50 } }

\* ratio sequences in scan order, up to MaxLen long
RatioSeqs ==
  UNION { [1 .. n -> { 1000, 2999, 3000, 21000 }] : n \in 0 .. MaxLen }

\* what the decoder hands over when it reports no size
NoSizeImage == [w |-> 0, h |-> 0, px |-> <<>>]

Idle == [kind |-> "none"]

\* no page is open: the engine runs alone
NoPage ==
  /\ currentImage = Idle
  /\ currentMask = Idle
  /\ inputs = Idle
  /\ display = Idle
  /\ loading = {}
  /\ timer = Idle
  /\ hist = Idle

(***************************************************************************)
(* SpecFill: the tier-1 flood fill, one worklist entry at a time.          *)
(***************************************************************************)
InitFill ==
  /\ path \in Paths
  /\ img \in Images
  /\ opts \in FillOpts
  /\ pc = "seed"
  /\ bg = EmptyFill(img).bg
  /\ q = <<>>
  /\ qHead = 0
  /\ result = Idle
  /\ sIn = Idle
  /\ sOut = Idle
  /\ argv = Idle
  /\ files = <<>>
  /\ results = <<>>
  /\ cursor = 0
  /\ NoPage

FillState == [bg |-> bg, q |-> q, qHead |-> qHead]

Seed ==
  /\ pc = "seed"
  /\ LET st == SeedFill(path, img, opts)
     IN /\ bg' = st.bg
        /\ q' = st.q
        /\ qHead' = st.qHead
  /\ pc' = "fill"
  /\ UNCHANGED <<path, img, opts, result, sIn, sOut, argv, files, results, cursor>>
  /\ UNCHANGED pageVars

FillStep ==
  /\ pc = "fill"
  /\ Pending(path, FillState)
  /\ LET st == FillStepOf(path, img, opts, FillState)
     IN /\ bg' = st.bg
        /\ q' = st.q
        /\ qHead' = st.qHead
  /\ UNCHANGED <<path, img, opts, pc, result, sIn, sOut, argv, files, results, cursor>>
  /\ UNCHANGED pageVars

FillDone ==
  /\ pc = "fill"
  /\ ~Pending(path, FillState)
  /\ pc' = "filled"
  /\ UNCHANGED <<path, img, opts, bg, q, qHead, result, sIn, sOut, argv, files, results, cursor>>
  /\ UNCHANGED pageVars

NextFill == Seed \/ FillStep \/ FillDone

SpecFill == InitFill /\ [][NextFill]_vars

(***************************************************************************)
(* Border reachability, stated on the picture alone: the least set that    *)
(* holds the near-background border pixels and every near-background       *)
(* 4-neighbour of a member.                                                *)
(***************************************************************************)
OnBorder(im, p) ==
  XOf(im, p) = 0 \/ YOf(im, p) = 0 \/ XOf(im, p) = im.w - 1 \/ YOf(im, p) = im.h - 1

Adjacent4(im, p, r) ==
  LET dx == XOf(im, p) - XOf(im, r)
      dy == YOf(im, p) - YOf(im, r)
  IN dx * dx + dy * dy = 1

RECURSIVE Grow(_, _, _)
Grow(im, o, S) ==
  LET N == S \cup { r \in Pixels(im) : NearBgAt(im, o, r) /\ \E p \in S : Adjacent4(im, p, r) }
  IN IF N = S THEN S ELSE Grow(im, o, N)

BorderReachable(im, o) ==
  Grow(im, o, { p \in Pixels(im) : OnBorder(im, p) /\ NearBgAt(im, o, p) })

\* C1: when the tier-1 fill has ended, a pixel is in the background mask if and
\* only if a 4-connected path of near-background pixels joins it to the border;
\* so an enclosed near-background hole is never marked.
C1_FillMarksBorderReachable ==
  pc = "filled" => \A p \in Pixels(img) : bg[p] <=> p \in BorderReachable(img, opts)

\* a finished fill that marked some background and left a near-background hole alone
C1_Witness ==
  /\ pc = "filled"
  /\ \E p \in Pixels(img) : bg[p]
  /\ \E r \in Pixels(img) : NearBgAt(img, opts, r) /\ ~bg[r] /\ ~OnBorder(img, r)

\* the pixels in the order the batch stack hands them out
RECURSIVE PopOrder(_, _, _)
PopOrder(im, o, st) ==
  IF Pending("batch", st)
  THEN <<st.q[Len(st.q)]>> \o PopOrder(im, o, StepBatch(im, o, st))
  ELSE <<>>

Marked == { p \in Pixels(img) : bg[p] }

\* C11: the finished tier-1 background mask does not depend on the order in
\* which seeds and worklist entries are taken: the first-in-first-out queue of
\* the web path and the last-in-first-out stack of the batch path end with the
\* same mask, and a second fill of the same picture gives the same mask again.
C11_MaskIndependentOfOrder ==
  pc = "filled" =>
     /\ Marked = Tier1Mask("batch", img, opts)
     /\ Marked = Tier1Mask("web", img, opts)

\* a finished web fill whose queue order is not the order of the batch stack
C11_Witness ==
  /\ pc = "filled"
  /\ path = "web"
  /\ Len(q) >= 3
  /\ q # PopOrder(img, opts, SeedFill("batch", img, opts))
  /\ Marked = Tier1Mask("batch", img, opts)

\* the worklist entries written by the step: the web queue only grows at its
\* tail; the batch stack loses its top in a fill step and grows above the rest
NewEntries ==
  IF path = "web" THEN SubSeq(q', Len(q) + 1, Len(q'))
  ELSE IF pc = "fill" /\ Len(q) > 0 THEN SubSeq(q', Len(q), Len(q'))
  ELSE SubSeq(q', Len(q) + 1, Len(q'))

\* the entries still to be taken
Waiting ==
  IF path = "web" THEN { q[i] : i \in (qHead + 1) .. Len(q) }
  ELSE { q[i] : i \in 1 .. Len(q) }

NoRepeat(s) == \A i, j \in 1 .. Len(s) : s[i] = s[j] => i = j

WorklistStep ==
  /\ \A p \in Pixels(img) : bg[p] => bg'[p]
  /\ NoRepeat(NewEntries)
  /\ \A p \in Pixels(img) :
       (\E i \in 1 .. Len(NewEntries) : NewEntries[i] = p) <=> (~bg[p] /\ bg'[p])
  /\ NoRepeat(q')
  /\ \A i \in 1 .. Len(q') : bg'[q'[i]]
  /\ Len(q') <= Total(img)
  /\ qHead' <= Total(img)
  /\ (pc = "fill" /\ pc' = "fill") =>
       IF path = "web"
       THEN qHead' = qHead + 1 /\ SubSeq(q', 1, Len(q)) = q
       ELSE SubSeq(q', 1, Len(q) - 1) = SubSeq(q, 1, Len(q) - 1)
  /\ pc' = "filled" => Waiting' = {}

\* C16: in the tier-1 fill every step marks a pixel as it puts it on the
\* worklist, and only a pixel that was not marked before, so no pixel is put on
\* the worklist twice; the worklist never holds more than W*H entries (the web
\* queue of W*H slots is not written past its end); a fill step takes one
\* entry off, at most W*H are taken, and the fill ends with nothing waiting.
C16_WorklistDiscipline == [][WorklistStep]_vars

\* a finished web fill that marked every pixel: the queue was filled to its end
C16_Witness ==
  /\ pc = "filled"
  /\ path = "web"
  /\ Total(img) >= 2 * MaxW
  /\ Len(q) = Total(img)
  /\ qHead = Total(img)
  /\ Marked = Pixels(img)

(***************************************************************************)
(* Spec: one analysis of one image, on either path.                        *)
(***************************************************************************)
Init ==
  /\ path \in Paths
  /\ img \in IF path = "batch" THEN Images \cup {NoSizeImage} ELSE Images
  /\ opts \in IF path = "batch" THEN BatchOpts ELSE WebOpts
  /\ pc = "ready"
  /\ bg = <<>>
  /\ q = <<>>
  /\ qHead = 0
  /\ result = Idle
  /\ sIn = Idle
  /\ sOut = Idle
  /\ argv = Idle
  /\ files = <<>>
  /\ results = <<>>
  /\ cursor = 0
  /\ NoPage

AnalyzeOne ==
  /\ pc = "ready"
  /\ path = "batch"
  /\ result' = AnalyzeOneResult(img, opts)
  /\ pc' = "done"
  /\ UNCHANGED <<path, img, opts, bg, q, qHead, sIn, sOut, argv, files, results, cursor>>
  /\ UNCHANGED pageVars

Analyze ==
  /\ pc = "ready"
  /\ path = "web"
  /\ result' = AnalyzeResult(img, opts)
  /\ pc' = "done"
  /\ UNCHANGED <<path, img, opts, bg, q, qHead, sIn, sOut, argv, files, results, cursor>>
  /\ UNCHANGED pageVars

Next == AnalyzeOne \/ Analyze

Spec == Init /\ [][Next]_vars


(***************************************************************************)
(* Properties of one analysis (Spec).                                      *)
(***************************************************************************)
Analysed == pc = "done" /\ result.kind = "ok"

NearBgPixels(im, o) == { p \in Pixels(im) : NearBgAt(im, o, p) }

\* the pixels that contributed a ratio for background i
Scored(i) == { result.perBg[i].scored[k] : k \in 1 .. Len(result.perBg[i].scored) }

Evaluated == 1 .. Len(result.perBg)

\* C2: whenever tier 1 marks nothing, the background mask is afterwards exactly
\* the set of pixels that satisfy the near-background predicate, on both paths.
C2_Tier2OnBothPaths ==
  (Analysed /\ result.tier1 = {}) => result.bgMask = NearBgPixels(img, opts)

\* distance of a pixel to the nearest grid edge
EdgeDistance(im, p) ==
  LET S == { XOf(im, p), YOf(im, p), im.w - 1 - XOf(im, p), im.h - 1 - YOf(im, p) }
  IN CHOOSE d \in S : \A e \in S : d <= e

\* C3: whenever no pixel satisfies the near-background predicate, the background
\* mask is empty and the sample mask is the band of pixels within bandRadius of
\* a grid edge, whatever the sample mode.
C3_Tier3BorderBand ==
  (Analysed /\ NearBgPixels(img, opts) = {}) =>
     /\ result.bgMask = {}
     /\ result.mask = { p \in Pixels(img) : EdgeDistance(img, p) <= opts.bandRadius }

Foreground == Pixels(img) \ result.bgMask

C5_AlphaGateOnBothPaths ==
  Analysed =>
     /\ \A i \in Evaluated : \A p \in Scored(i) : img.px[p].a >= opts.minAlpha
     /\ \A p \in result.failing : img.px[p].a >= opts.minAlpha

\* C7: the overall verdict is the conjunction of the per-background passes when
\* requireAllBackgroundsToPass is set and their disjunction otherwise.
C7_OverallIsAllOrAny ==
  Analysed =>
     result.overall =
       IF opts.requireBoth
       THEN \A i \in Evaluated : result.perBg[i].pass
       ELSE \E i \in Evaluated : result.perBg[i].pass

\* passes on white, fails on black, and the flag makes the overall verdict a fail
C7_Witness ==
  /\ Analysed
  /\ opts.requireBoth
  /\ Len(result.perBg) = 2
  /\ result.perBg[1].pass
  /\ ~result.perBg[2].pass
  /\ ~result.overall

AllTransparent(im, o) == Total(im) > 0 /\ \A p \in Pixels(im) : im.px[p].a <= o.alphaBg

NothingScored == \A i \in Evaluated : result.perBg[i].stats.count = 0

\* C8 as stated: for an image of pixels at or below the alpha cutoff, and whenever
\* no pixel ends up sampled, the analysis ends without error with the background
\* mask covering every pixel, an empty sample mask, count 0 and pass false for
\* every background, and overall false.
C8_AsStated ==
  (pc = "done" /\ Total(img) > 0 /\ (AllTransparent(img, opts) \/ NothingScored)) =>
     /\ result.kind = "ok"
     /\ result.bgMask = Pixels(img)
     /\ NothingScored
     /\ \A i \in Evaluated : ~result.perBg[i].pass
     /\ ~result.overall

\* C8, amended: the analysis of a sized image never raises; if every pixel is at
\* or below the alpha cutoff the background mask covers every pixel, the sample
\* mask is empty and nothing is scored; and whenever nothing is scored for a
\* background its count is 0 and its pass false, and when nothing is scored at
\* all the overall verdict is false under either value of the flag.
C8_DegenerateIsAVerdict ==
  (pc = "done" /\ Total(img) > 0) =>
     /\ result.kind = "ok"
     /\ AllTransparent(img, opts) =>
          /\ result.bgMask = Pixels(img)
          /\ result.mask = {}
          /\ NothingScored
     /\ \A i \in Evaluated :
          Scored(i) = {} => result.perBg[i].stats.count = 0 /\ ~result.perBg[i].pass
     /\ NothingScored => ~result.overall

\* a fully transparent picture analysed on the batch path with the flag set
C8_Witness ==
  /\ pc = "done"
  /\ path = "batch"
  /\ opts.requireBoth
  /\ Total(img) > 1
  /\ AllTransparent(img, opts)
  /\ result.kind = "ok"
  /\ ~result.overall

Abs(n) == IF n < 0 THEN 0 - n ELSE n

\* Chebyshev distance of two pixels of the grid
Chebyshev(im, p, r) ==
  LET dx == Abs(XOf(im, p) - XOf(im, r))
      dy == Abs(YOf(im, p) - YOf(im, r))
  IN IF dx >= dy THEN dx ELSE dy

WithinBand(im, bgMask, radius) ==
  { p \in Pixels(im) \ bgMask : \E r \in bgMask : Chebyshev(im, p, r) <= radius }

\* C12: with a background detected, a pixel is in the edge band if and only if
\* it is outside the background mask and some background pixel lies within
\* Chebyshev distance bandRadius of it; in Band mode the edge band is the sample
\* mask, so a foreground pixel farther than that from every background pixel is
\* never scored.
C12_BandMembership ==
  (Analysed /\ result.bgMask # {}) =>
     /\ result.band = WithinBand(img, result.bgMask, opts.bandRadius)
     /\ opts.sampleMode = "band" =>
          /\ result.mask = result.band
          /\ \A i \in Evaluated : Scored(i) \subseteq result.band

\* Band mode, radius 1: one foreground pixel touches the background only by a
\* corner and is in the band, another lies two steps away and is not
C12_Witness ==
  /\ Analysed
  /\ opts.sampleMode = "band"
  /\ opts.bandRadius = 1
  /\ result.bgMask # {}
  /\ \E p \in result.band :
        \A r \in result.bgMask : XOf(img, p) # XOf(img, r) /\ YOf(img, p) # YOf(img, r)
  /\ \E p \in Foreground \ result.band :
        \A r \in result.bgMask : Chebyshev(img, p, r) > opts.bandRadius

(***************************************************************************)
(* SpecContrast: contrastRatioPixelVsBg on one pixel and one opaque         *)
(* background colour.  sIn is [px, bgColor], sOut the composited colour    *)
(* and the ratio.                                                          *)
(***************************************************************************)
\* channel values 0 .. 255 in MaxLevel equal steps
Levels == { (255 * k) \div MaxLevel : k \in 0 .. MaxLevel }

AlphaLevels == {0, 100, 255}

InitContrast ==
  /\ path \in Paths
  /\ img = NoSizeImage
  /\ opts = DefaultOpts
  /\ pc = "pixel"
  /\ bg = <<>>
  /\ q = <<>>
  /\ qHead = 0
  /\ result = Idle
  /\ sIn \in [ px : { Px(r, g, b, a) : r \in Levels, g \in Levels, b \in Levels, a \in AlphaLevels },
               bgColor : Levels \X Levels \X Levels ]
  /\ sOut = Idle
  /\ argv = Idle
  /\ files = <<>>
  /\ results = <<>>
  /\ cursor = 0
  /\ NoPage

\* collectRatios: cr = contrastRatioPixelVsBg(r, g, b, a, bgColor)
ContrastBatch ==
  /\ pc = "pixel"
  /\ path = "batch"
  /\ sOut' = [ composited |-> Composite(sIn.px, sIn.bgColor),
               ratio |-> ContrastRatioPixelVsBg(sIn.px, sIn.bgColor) ]
  /\ pc' = "measured"
  /\ UNCHANGED <<path, img, opts, bg, q, qHead, result, sIn, argv, files, results, cursor>>
  /\ UNCHANGED pageVars

\* analyze: cr = contrastRatioPixelVsBg(data[off], ..., a, opts.bg)
ContrastWeb ==
  /\ pc = "pixel"
  /\ path = "web"
  /\ sOut' = [ composited |-> Composite(sIn.px, sIn.bgColor),
               ratio |-> ContrastRatioPixelVsBg(sIn.px, sIn.bgColor) ]
  /\ pc' = "measured"
  /\ UNCHANGED <<path, img, opts, bg, q, qHead, result, sIn, argv, files, results, cursor>>
  /\ UNCHANGED pageVars

NextContrast == ContrastBatch \/ ContrastWeb

SpecContrast == InitContrast /\ [][NextContrast]_vars

Rgb(px) == <<px.r, px.g, px.b>>

Opaque(c) == Px(c[1], c[2], c[3], 255)

\* C13: the ratio of a pixel against an opaque background colour lies between
\* 1 and 21 (1000 and 21000 thousandths); it is 1 when the composited colour is
\* the background colour, so for an opaque colour against itself and for a
\* fully transparent pixel; it is 21 for opaque black on white; and for an
\* opaque pixel it is unchanged when pixel and background swap roles.
C13_RatioBounds ==
  pc = "measured" =>
     /\ sOut.ratio >= 1000
     /\ sOut.ratio <= 21000
     /\ sOut.composited = sIn.bgColor => sOut.ratio = 1000
     /\ sIn.px.a = 0 => sOut.ratio = 1000
     /\ (sIn.px.a = 255 /\ Rgb(sIn.px) = sIn.bgColor) => sOut.ratio = 1000
     /\ (sIn.px = Bk /\ sIn.bgColor = White) => sOut.ratio = 21000
     /\ sIn.px.a = 255 =>
          sOut.ratio = ContrastRatioPixelVsBg(Opaque(sIn.bgColor), Rgb(sIn.px))

\* a fully transparent coloured pixel measured at 1:1 against another colour
C13_Witness ==
  /\ pc = "measured"
  /\ sIn.px.a = 0
  /\ Rgb(sIn.px) # sIn.bgColor
  /\ RelLuminance(sIn.px.r, sIn.px.g, sIn.px.b)
       # RelLuminance(sIn.bgColor[1], sIn.bgColor[2], sIn.bgColor[3])
  /\ sOut.ratio = 1000

\* the ratio of pixel p against evaluation background i
RatioAt(p, i) == ContrastRatioPixelVsBg(img.px[p], opts.backgrounds[i])

\* C17: for every evaluation background with a scored pixel a worst sample is
\* retained, its ratio is the min of the statistics, and it is the first pixel
\* in row-major order among the scored pixels of that lowest ratio; with no
\* scored pixel no worst sample is retained.
C17_WorstSample ==
  Analysed =>
     \A i \in Evaluated :
       LET e == result.perBg[i]
       IN IF e.stats.count > 0
          THEN /\ e.worst # Null
               /\ e.worst = e.stats.min
               /\ e.worstPixel # Null
               /\ e.worstPixel[1] \in Scored(i)
               /\ Frac(RatioAt(e.worstPixel[1], i)) = e.stats.min
               /\ \A p \in Scored(i) :
                    Frac(RatioAt(p, i)) = e.stats.min => e.worstPixel[1] <= p
          ELSE e.worst = Null /\ e.worstPixel = Null

(***************************************************************************)
(* SpecStats: the statistics and the pass rule on a ratio sequence.        *)
(***************************************************************************)
InitStats ==
  /\ path \in Paths
  /\ img = NoSizeImage
  /\ opts \in StatOpts
  /\ pc = "ratios"
  /\ bg = <<>>
  /\ q = <<>>
  /\ qHead = 0
  /\ result = Idle
  /\ sIn \in RatioSeqs
  /\ sOut = Idle
  /\ argv = Idle
  /\ files = <<>>
  /\ results = <<>>
  /\ cursor = 0
  /\ NoPage

\* collectRatios' tail: statsForRatios, then passByStats
SummarizeBatch ==
  /\ pc = "ratios"
  /\ path = "batch"
  /\ LET st == StatsForRatios(sIn, opts)
     IN sOut' = [stats |-> st, pass |-> PassByStats(st, opts)]
  /\ pc' = "summarized"
  /\ UNCHANGED <<path, img, opts, bg, q, qHead, result, sIn, argv, files, results, cursor>>
  /\ UNCHANGED pageVars

\* analyze's tail: the stats object, then pass
SummarizeWeb ==
  /\ pc = "ratios"
  /\ path = "web"
  /\ LET st == StatsWeb(sIn, opts)
     IN sOut' = [stats |-> st, pass |-> PassWeb(st, opts)]
  /\ pc' = "summarized"
  /\ UNCHANGED <<path, img, opts, bg, q, qHead, result, sIn, argv, files, results, cursor>>
  /\ UNCHANGED pageVars

NextStats == SummarizeBatch \/ SummarizeWeb

SpecStats == InitStats /\ [][NextStats]_vars

\* the k-th smallest ratio (k from 0), found by counting
OrderStat(r, k) ==
  CHOOSE v \in { r[i] : i \in 1 .. Len(r) } :
    /\ Cardinality({ i \in 1 .. Len(r) : r[i] < v }) <= k
    /\ k < Cardinality({ i \in 1 .. Len(r) : r[i] <= v })

\* percentile-at-p >= threshold: interpolation between the order statistics at
\* floor((n-1)p) and ceil((n-1)p), both sides multiplied by the denominator of p
PercentileAtLeast(r, p, threshold) ==
  LET t == (Len(r) - 1) * p[1]
      lo == t \div p[2]
      rem == t % p[2]
      hi == IF rem = 0 THEN lo ELSE lo + 1
  IN OrderStat(r, lo) * (p[2] - rem) + OrderStat(r, hi) * rem >= threshold * p[2]

StrictlyBelow(r, threshold) == Cardinality({ i \in 1 .. Len(r) : r[i] < threshold })

TextWhite == <<"w", "h", "i", "t", "e">>
TextHexWhite == <<"#", "F", "F", "F">>
TextBogus == <<"b", "o", "g", "u", "s">>

\* parseInt(text, 10) / parseFloat(text) of an optionally signed digit run;
\* any other text gives NaN
IsNumberText(t) ==
  LET d == IF t # <<>> /\ Head(t) = "-" THEN Tail(t) ELSE t
  IN d # <<>> /\ \A i \in 1 .. Len(d) : IsDigit(d[i])

ParseNumber(t) ==
  IF t # <<>> /\ Head(t) = "-" THEN 0 - ParseDigits(Tail(t)) ELSE ParseDigits(t)

ArgvSet ==
  [ bg : { <<>>, <<TextHexWhite>>, <<TextBogus>>, <<TextWhite, TextBogus>> },
    segBg : { <<>>, TextBogus },
    threshold : { <<"3">>, <<"a", "b", "c">> },
    bandRadius : { <<"1">>, <<"-", "1">> },
    requireBoth : BOOLEAN,
    targetExists : BOOLEAN ]

Unreadable == [readable |-> FALSE, img |-> NoSizeImage]
NoSize == [readable |-> TRUE, img |-> NoSizeImage]
Symbol == [readable |-> TRUE, img |-> MkImage(MaxW, 1, Wh, Bk, {1})]
Blank == [readable |-> TRUE, img |-> MkImage(2, 2, Tr, Bk, {})]

FileKinds == { Unreadable, NoSize, Symbol, Blank }

FileLists == UNION { [1 .. n -> FileKinds] : n \in 0 .. MaxFiles }

\* main, lines 375-379: the backgrounds and the segmentation colour
ParsedBackgrounds(a) ==
  IF Len(a.bg) > 0
  THEN [i \in 1 .. Len(a.bg) |-> ParseColor(a.bg[i])]
  ELSE << Colour(White), Colour(Black) >>

ParsedSegBg(a) ==
  IF a.segBg # <<>> THEN ParseColor(a.segBg) ELSE ParsedBackgrounds(a)[1]

ColourThrows(a) ==
  \/ \E i \in 1 .. Len(ParsedBackgrounds(a)) : ~ParsedBackgrounds(a)[i].ok
  \/ ~ParsedSegBg(a).ok

\* main, lines 381-393: the options object; numbers are taken as they parse
OptsOf(a) ==
  [ DefaultOpts EXCEPT
      !.backgrounds = [i \in 1 .. Len(ParsedBackgrounds(a)) |-> ParsedBackgrounds(a)[i].rgb],
      !.segBg = ParsedSegBg(a).rgb,
      !.threshold = IF IsNumberText(a.threshold) THEN 1000 * ParseNumber(a.threshold) ELSE 0,
      !.nan = IF IsNumberText(a.threshold) THEN {} ELSE {"threshold"},
      !.bandRadius = ParseNumber(a.bandRadius),
      !.minAlpha = 0,
      !.requireBoth = a.requireBoth ]

InitBatch ==
  /\ path = "batch"
  /\ img = NoSizeImage
  /\ opts = DefaultOpts
  /\ pc = "start"
  /\ bg = <<>>
  /\ q = <<>>
  /\ qHead = 0
  /\ result = Idle
  /\ sIn = <<>>
  /\ sOut = Idle
  /\ argv \in ArgvSet
  /\ files \in FileLists
  /\ results = <<>>
  /\ cursor = 0
  /\ NoPage

\* main up to the loop: parseColor may throw, fs.statSync may throw
ParseArgs ==
  /\ pc = "start"
  /\ IF ColourThrows(argv) \/ ~argv.targetExists
     THEN pc' = "aborted" /\ UNCHANGED <<opts, cursor>>
     ELSE pc' = "loop" /\ opts' = OptsOf(argv) /\ cursor' = 1
  /\ UNCHANGED <<path, img, bg, q, qHead, result, sIn, sOut, argv, files, results>>
  /\ UNCHANGED pageVars

\* await analyzeOne(f, opts): resolves with the analysis or rejects
TryAnalyzeOne(f, o) ==
  IF ~f.readable THEN [kind |-> "error"] ELSE AnalyzeOneResult(f.img, o)

\* LoopBody that records nothing for a file whose analysis throws
LoopBodyDropsFailed(res, i, f, o) ==
  LET r == TryAnalyzeOne(f, o)
  IN IF r.kind = "ok" THEN Append(res, [file |-> i, kind |-> "ok", analysis |-> r])
     ELSE res

\* try { results.push(await analyzeOne(f, opts)) } catch (e) { results.push({file, error}) }
LoopBody(res, i, f, o) ==
  LET r == TryAnalyzeOne(f, o)
  IN IF r.kind = "ok" THEN Append(res, [file |-> i, kind |-> "ok", analysis |-> r])
     ELSE Append(res, [file |-> i, kind |-> "error", analysis |-> Idle])

AnalyzeFile ==
  /\ pc = "loop"
  /\ cursor <= Len(files)
  /\ results' = LoopBody(results, cursor, files[cursor], opts)
  /\ cursor' = cursor + 1
  /\ UNCHANGED <<path, img, opts, pc, bg, q, qHead, result, sIn, sOut, argv, files>>
  /\ UNCHANGED pageVars

\* the loop is over: the report is written from `results`
Report ==
  /\ pc = "loop"
  /\ cursor > Len(files)
  /\ pc' = "reported"
  /\ UNCHANGED <<path, img, opts, bg, q, qHead, result, sIn, sOut, argv, files, results, cursor>>
  /\ UNCHANGED pageVars

NextBatch == ParseArgs \/ AnalyzeFile \/ Report

SpecBatch == InitBatch /\ [][NextBatch]_vars

Decodes(f) == f.readable /\ f.img.w > 0 /\ f.img.h > 0

\* C9: the result list holds, in file order, one entry per file handled so far,
\* the analysis of the file or an error record for it, each determined by its own
\* file alone; a failing file does not end the loop, so the report is written
\* from exactly one entry per file.
C9_OneEntryPerFileInOrder ==
  pc \in {"loop", "reported"} =>
     /\ Len(results) = cursor - 1
     /\ pc = "reported" => Len(results) = Len(files)
     /\ \A i \in 1 .. Len(results) :
          /\ results[i].file = i
          /\ IF Decodes(files[i])
             THEN /\ results[i].kind = "ok"
                  /\ results[i].analysis = AnalyzeOneResult(files[i].img, opts)
             ELSE results[i].kind = "error"

\* a finished run whose first file failed and whose second file was analysed
C9_Witness ==
  /\ pc = "reported"
  /\ Len(files) >= 2
  /\ results[1].kind = "error"
  /\ results[2].kind = "ok"

ConfigInvalid(a) ==
  \/ ColourThrows(a)
  \/ ~IsNumberText(a.threshold)
  \/ ~IsNumberText(a.bandRadius)
  \/ ParseNumber(a.bandRadius) < 0

\* C10: under a configuration with an unparseable colour or a numeric option
\* that is not a number or out of range, the run ends before any image is
\* analysed: no analysis result is ever produced.
C10_ConfigErrorsFailFast ==
  ConfigInvalid(argv) => \A i \in 1 .. Len(results) : results[i].kind # "ok"

(***************************************************************************)
(* Numbers of the source language.  Every number of the source is an       *)
(* IEEE-754 binary64 value, and *, + and - round their exact result to the *)
(* nearest such value, ties to even.  A natural number of any size is a    *)
(* sequence of limbs in 0 .. Base - 1, least significant first, with no    *)
(* leading zero limb; a non-negative binary64 value is [m, e], standing    *)
(* for m * 2^e with m of exactly MantBits bits, or DZero.  Underflow,      *)
(* overflow and signs do not arise for the values percentile() handles.    *)
(***************************************************************************)
LimbBits == 15
Base == 32768
MantBits == 53

RECURSIVE NNorm(_)
NNorm(a) == IF a # <<>> /\ a[Len(a)] = 0 THEN NNorm(SubSeq(a, 1, Len(a) - 1)) ELSE a

RECURSIVE NFromInt(_)
NFromInt(k) == IF k = 0 THEN <<>> ELSE <<k % Base>> \o NFromInt(k \div Base)

RECURSIVE NToInt(_)
NToInt(a) == IF a = <<>> THEN 0 ELSE Head(a) + Base * NToInt(Tail(a))

RECURSIVE NAddC(_, _, _)
NAddC(a, b, c) ==
  IF a = <<>> /\ b = <<>> THEN (IF c = 0 THEN <<>> ELSE <<c>>)
  ELSE LET x == (IF a = <<>> THEN 0 ELSE Head(a)) + (IF b = <<>> THEN 0 ELSE Head(b)) + c
       IN <<x % Base>> \o NAddC(IF a = <<>> THEN a ELSE Tail(a),
                                IF b = <<>> THEN b ELSE Tail(b), x \div Base)

NAdd(a, b) == NAddC(a, b, 0)

\* a - b for a >= b, before the leading zero limbs are dropped
RECURSIVE NSubB(_, _, _)
NSubB(a, b, c) ==
  IF a = <<>> THEN <<>>
  ELSE LET x == Head(a) - (IF b = <<>> THEN 0 ELSE Head(b)) - c
       IN <<IF x < 0 THEN x + Base ELSE x>>
          \o NSubB(Tail(a), IF b = <<>> THEN b ELSE Tail(b), IF x < 0 THEN 1 ELSE 0)

NSub(a, b) == NNorm(NSubB(a, b, 0))

RECURSIVE NMulSmall(_, _, _)
NMulSmall(a, k, c) ==
  IF a = <<>> THEN (IF c = 0 THEN <<>> ELSE <<c>>)
  ELSE LET x == Head(a) * k + c
       IN <<x % Base>> \o NMulSmall(Tail(a), k, x \div Base)

RECURSIVE NMulU(_, _)
NMulU(a, b) ==
  IF b = <<>> THEN <<>>
  ELSE NAdd(NMulSmall(a, Head(b), 0), <<0>> \o NMulU(a, Tail(b)))

NMul(a, b) == NNorm(NMulU(a, b))

\* -1, 0, 1 as a < b, a = b, a > b
RECURSIVE NCmpAt(_, _, _)
NCmpAt(a, b, i) ==
  IF i = 0 THEN 0
  ELSE IF a[i] < b[i] THEN 0 - 1
  ELSE IF a[i] > b[i] THEN 1
  ELSE NCmpAt(a, b, i - 1)

NCmp(a, b) ==
  IF Len(a) < Len(b) THEN 0 - 1
  ELSE IF Len(a) > Len(b) THEN 1
  ELSE NCmpAt(a, b, Len(a))

RECURSIVE BitLenSmall(_)
BitLenSmall(k) == IF k = 0 THEN 0 ELSE 1 + BitLenSmall(k \div 2)

NBitLen(a) == IF a = <<>> THEN 0 ELSE LimbBits * (Len(a) - 1) + BitLenSmall(a[Len(a)])

\* quotient and remainder of a by a divisor below Base, most significant limb first
RECURSIVE NDivSmallAt(_, _, _, _)
NDivSmallAt(a, d, i, r) ==
  IF i = 0 THEN [q |-> <<>>, r |-> r]
  ELSE LET x == r * Base + a[i]
           rest == NDivSmallAt(a, d, i - 1, x % d)
       IN [q |-> Append(rest.q, x \div d), r |-> rest.r]

NDivSmall(a, d) ==
  LET res == NDivSmallAt(a, d, Len(a), 0)
  IN [q |-> NNorm(res.q), r |-> res.r]

Zeros(n) == [i \in 1 .. n |-> 0]

\* a * 2^k
NShl(a, k) ==
  IF a = <<>> THEN <<>>
  ELSE Zeros(k \div LimbBits) \o NMulSmall(a, 2 ^ (k % LimbBits), 0)

\* floor(a / 2^k)
NShr(a, k) ==
  IF k \div LimbBits >= Len(a) THEN <<>>
  ELSE NDivSmall(SubSeq(a, k \div LimbBits + 1, Len(a)), 2 ^ (k % LimbBits)).q

NIsOdd(a) == a # <<>> /\ a[1] % 2 = 1

DZero == [m |-> <<>>, e |-> 0]

\* the binary64 value nearest to n * 2^e, ties to even
Round53(n, e) ==
  IF n = <<>> THEN DZero
  ELSE LET len == NBitLen(n)
       IN IF len <= MantBits
          THEN [m |-> NShl(n, MantBits - len), e |-> e - (MantBits - len)]
          ELSE LET s == len - MantBits
                   quo == NShr(n, s)
                   rest == NSub(n, NShl(quo, s))
                   half == NShl(<<1>>, s - 1)
                   up == \/ NCmp(rest, half) = 1
                         \/ NCmp(rest, half) = 0 /\ NIsOdd(quo)
                   m == IF up THEN NAdd(quo, <<1>>) ELSE quo
               IN IF NBitLen(m) > MantBits
                  THEN [m |-> NShr(m, 1), e |-> e + s + 1]
                  ELSE [m |-> m, e |-> e + s]

DFromInt(k) == Round53(NFromInt(k), 0)

\* parseFloat of the decimal text of n / d, d below Base: the nearest binary64
DFromRatio(n, d) ==
  LET res == NDivSmall(NShl(NFromInt(n), 5 * LimbBits), d)
      sticky == IF res.r = 0 THEN 0 ELSE 1
  IN Round53(NAddC(NShl(res.q, 1), <<>>, sticky), 0 - (5 * LimbBits + 1))

DOne == DFromInt(1)

DMul(a, b) == Round53(NMul(a.m, b.m), a.e + b.e)

DAdd(a, b) ==
  IF a = DZero THEN b
  ELSE IF b = DZero THEN a
  ELSE LET e == IF a.e <= b.e THEN a.e ELSE b.e
       IN Round53(NAdd(NShl(a.m, a.e - e), NShl(b.m, b.e - e)), e)

\* -1, 0, 1 as a < b, a = b, a > b
DCmp(a, b) ==
  IF a = DZero THEN (IF b = DZero THEN 0 ELSE 0 - 1)
  ELSE IF b = DZero THEN 1
  ELSE LET e == IF a.e <= b.e THEN a.e ELSE b.e
       IN NCmp(NShl(a.m, a.e - e), NShl(b.m, b.e - e))

DLe(a, b) == DCmp(a, b) <= 0

\* a - b for a >= b
DSub(a, b) ==
  IF b = DZero THEN a
  ELSE LET e == IF a.e <= b.e THEN a.e ELSE b.e
       IN Round53(NSub(NShl(a.m, a.e - e), NShl(b.m, b.e - e)), e)

\* Math.floor and Math.ceil of a value below Base * Base, as integers
DFloor(a) ==
  IF a = DZero THEN 0
  ELSE IF a.e >= 0 THEN NToInt(NShl(a.m, a.e))
  ELSE NToInt(NShr(a.m, 0 - a.e))

DCeil(a) == IF DFromInt(DFloor(a)) = a THEN DFloor(a) ELSE DFloor(a) + 1

\* percentile(sorted, p) on binary64 values; sorted[lo] of the source is sorted[lo + 1]
PercentileDouble(sorted, p) ==
  IF Len(sorted) = 0 THEN Null
  ELSE LET idx == DMul(DFromInt(Len(sorted) - 1), p)
           lo == DFloor(idx)
           hi == DCeil(idx)
           w == DSub(idx, DFromInt(lo))
       IN IF lo = hi THEN sorted[lo + 1]
          ELSE DAdd(DMul(sorted[lo + 1], DSub(DOne, w)), DMul(sorted[hi + 1], w))

(***************************************************************************)
(* SpecPercentile: percentile(sorted, p) as statsForRatios and analyze     *)
(* call it, on an ascending sequence of binary64 ratios.  sIn is           *)
(* [sorted, frac, p]: p is the binary64 value of the fraction frac.        *)
(***************************************************************************)
\* ratios 1, 3, 4.5 and 21, in ascending order
DoubleRatios == << DFromRatio(1, 1), DFromRatio(3, 1), DFromRatio(9, 2), DFromRatio(21, 1) >>

Fractions == { <<0, 1>>, <<1, 20>>, <<1, 2>>, <<1, 1>> }

AscendingSeqs ==
  { [i \in 1 .. Len(ix) |-> DoubleRatios[ix[i]]] :
      ix \in { f \in UNION { [1 .. n -> 1 .. Len(DoubleRatios)] : n \in 0 .. MaxLen } :
                 \A i \in 1 .. (Len(f) - 1) : f[i] <= f[i + 1] } }

InitPercentile ==
  /\ path \in Paths
  /\ img = NoSizeImage
  /\ opts = DefaultOpts
  /\ pc = "sorted"
  /\ bg = <<>>
  /\ q = <<>>
  /\ qHead = 0
  /\ result = Idle
  /\ sIn \in { [sorted |-> s, frac |-> f, p |-> DFromRatio(f[1], f[2])] :
                s \in AscendingSeqs, f \in Fractions }
  /\ sOut = Idle
  /\ argv = Idle
  /\ files = <<>>
  /\ results = <<>>
  /\ cursor = 0
  /\ NoPage

\* what percentile() hands back: null for an empty sequence, else a number
Returned(sorted, p) ==
  IF Len(sorted) = 0 THEN [isNull |-> TRUE, value |-> DZero]
  ELSE [isNull |-> FALSE, value |-> PercentileDouble(sorted, p)]

\* statsForRatios: pX: percentile(s, p)
PercentileBatch ==
  /\ pc = "sorted"
  /\ path = "batch"
  /\ sOut' = Returned(sIn.sorted, sIn.p)
  /\ pc' = "percentile"
  /\ UNCHANGED <<path, img, opts, bg, q, qHead, result, sIn, argv, files, results, cursor>>
  /\ UNCHANGED pageVars

\* analyze: pX: percentile(ratios, opts.p)
PercentileWeb ==
  /\ pc = "sorted"
  /\ path = "web"
  /\ sOut' = Returned(sIn.sorted, sIn.p)
  /\ pc' = "percentile"
  /\ UNCHANGED <<path, img, opts, bg, q, qHead, result, sIn, argv, files, results, cursor>>
  /\ UNCHANGED pageVars

NextPercentile == PercentileBatch \/ PercentileWeb

SpecPercentile == InitPercentile /\ [][NextPercentile]_vars

\* p <= q for two fractions
FracLe(f, g) == f[1] * g[2] <= g[1] * f[2]

\* C14: for a non-empty ascending sequence, the percentile at 0 is the minimum,
\* the percentile at 1 is the maximum, the percentile at p lies between the
\* order statistics at floor((n-1)p) and ceil((n-1)p) that it interpolates, and
\* the percentile at p is at most the percentile at q whenever p <= q.
C14_PercentileProperties ==
  (pc = "percentile" /\ Len(sIn.sorted) > 0) =>
     LET n == Len(sIn.sorted)
         lo == ((n - 1) * sIn.frac[1]) \div sIn.frac[2]
         hi == IF ((n - 1) * sIn.frac[1]) % sIn.frac[2] = 0 THEN lo ELSE lo + 1
     IN /\ sIn.frac = <<0, 1>> => sOut.value = sIn.sorted[1]
        /\ sIn.frac = <<1, 1>> => sOut.value = sIn.sorted[n]
        /\ DLe(sIn.sorted[lo + 1], sOut.value)
        /\ DLe(sOut.value, sIn.sorted[hi + 1])
        /\ \A g \in Fractions :
             FracLe(sIn.frac, g) =>
               DLe(sOut.value, PercentileDouble(sIn.sorted, DFromRatio(g[1], g[2])))

(***************************************************************************)
(* parseHexColor of the page.  It never throws: a channel that parseInt    *)
(* cannot read is NaN, kept as its position in `nan`.                      *)
(***************************************************************************)
\* hex.replace("#", ""): the first "#" is dropped
RECURSIVE DropFirstHash(_)
DropFirstHash(s) ==
  IF s = <<>> THEN s
  ELSE IF Head(s) = "#" THEN Tail(s)
  ELSE <<Head(s)>> \o DropFirstHash(Tail(s))

\* clean.split("").map((c) => c + c).join("")
Doubled(s) == [i \in 1 .. 2 * Len(s) |-> s[(i + 1) \div 2]]

\* value.slice(from, to), positions counted from 0
Slice(s, from, to) ==
  SubSeq(s, from + 1, IF to <= Len(s) THEN to ELSE Len(s))

RECURSIVE HexPrefix(_)
HexPrefix(s) ==
  IF s # <<>> /\ IsHexDigit(ToLowerChar(Head(s)))
  THEN <<ToLowerChar(Head(s))>> \o HexPrefix(Tail(s))
  ELSE <<>>

RECURSIVE HexNumber(_)
HexNumber(s) ==
  IF s = <<>> THEN 0 ELSE 16 * HexNumber(SubSeq(s, 1, Len(s) - 1)) + HexVal(s[Len(s)])

\* parseInt(text, 16): leading blanks, a sign, a 0x prefix, then hex digits
ParseIntHex(text) ==
  LET t == TrimLeft(text)
      signed == t # <<>> /\ Head(t) \in {"+", "-"}
      u == IF signed THEN Tail(t) ELSE t
      v == IF Len(u) >= 2 /\ u[1] = "0" /\ u[2] \in {"x", "X"} THEN SubSeq(u, 3, Len(u)) ELSE u
      d == HexPrefix(v)
  IN IF d = <<>> THEN [nan |-> TRUE, n |-> 0]
     ELSE [nan |-> FALSE,
           n |-> IF signed /\ Head(t) = "-" THEN 0 - HexNumber(d) ELSE HexNumber(d)]

ParseHexColor(hex) ==
  LET clean == DropFirstHash(hex)
      value == IF Len(clean) = 3 THEN Doubled(clean) ELSE clean
      ch == << ParseIntHex(Slice(value, 0, 2)),
               ParseIntHex(Slice(value, 2, 4)),
               ParseIntHex(Slice(value, 4, 6)) >>
  IN [ raised |-> FALSE,
       rgb |-> [i \in 1 .. 3 |-> ch[i].n],
       nan |-> { i \in 1 .. 3 : ch[i].nan } ]

(***************************************************************************)
(* SpecColor: one colour text handed to parseColor (the --bg and --segBg   *)
(* arguments) or to parseHexColor (the value of a colour input of the      *)
(* page, a "#" followed by 3 or 6 hex digits).  sIn is [form, text, want]: *)
(* the text is written from a form and the channel values it denotes.      *)
(***************************************************************************)
\* the decimal text of an integer
RECURSIVE NatText(_)
NatText(n) ==
  IF n < 10 THEN <<HexDigits[n + 1]>> ELSE NatText(n \div 10) \o <<HexDigits[(n % 10) + 1]>>

IntText(n) == IF n < 0 THEN <<"-">> \o NatText(0 - n) ELSE NatText(n)

ChannelValues == {0 - 5, 0, 7, 255, 256, 999, 1000}

HexChars == {"0", "8", "A", "f"}

Pad(t, blank) == IF blank THEN <<" ">> \o t \o <<" ">> ELSE t

TripleText(c, blank) ==
  Pad(IntText(c[1]), blank) \o <<",">> \o Pad(IntText(c[2]), blank)
    \o <<",">> \o Pad(IntText(c[3]), blank)

NamedInputs ==
  { [form |-> "name", text |-> t, want |-> White] :
      t \in { <<"w", "h", "i", "t", "e">>, <<" ", "W", "h", "i", "t", "e", " ">> } }
  \cup
  { [form |-> "name", text |-> t, want |-> Black] :
      t \in { <<"b", "l", "a", "c", "k">>, <<"B", "L", "A", "C", "K">> } }

Hex3Inputs ==
  { [form |-> "hex", text |-> <<"#", a, b, c>>,
     want |-> << 17 * HexVal(ToLowerChar(a)), 17 * HexVal(ToLowerChar(b)),
                 17 * HexVal(ToLowerChar(c)) >>] :
      a \in HexChars, b \in HexChars, c \in HexChars }

Hex6Inputs ==
  { [form |-> "hex", text |-> <<"#", a, b, b, c, "0", a>>,
     want |-> << 16 * HexVal(ToLowerChar(a)) + HexVal(ToLowerChar(b)),
                 16 * HexVal(ToLowerChar(b)) + HexVal(ToLowerChar(c)),
                 HexVal(ToLowerChar(a)) >>] :
      a \in HexChars, b \in HexChars, c \in HexChars }

NumericInputs ==
  { [form |-> "numeric",
     text |-> IF rgb THEN <<"r", "g", "b", "(">> \o TripleText(c, blank) \o <<")">>
              ELSE TripleText(c, blank),
     want |-> c] :
      c \in ChannelValues \X ChannelValues \X ChannelValues, rgb \in BOOLEAN, blank \in BOOLEAN }

OtherInputs ==
  { [form |-> "other", text |-> t, want |-> Black] :
      t \in { <<>>, TextBogus, <<"#", "f", "f">>, <<"#", "g", "g", "g">>,
              <<"#", "f", "f", "f", "f">>, <<"1", ",", "2">>,
              <<"1", ",", "2", ",", "3", ",", "4">>, <<"r", "g", "b", "(", "1", ",", "2", ")">>,
              <<"r", "e", "d">>, <<"1", " ", "2", " ", "3">> } }

ColourInputs(pth) ==
  IF pth = "web" THEN Hex3Inputs \cup Hex6Inputs
  ELSE NamedInputs \cup Hex3Inputs \cup Hex6Inputs \cup NumericInputs \cup OtherInputs

InitColor ==
  /\ path \in Paths
  /\ img = NoSizeImage
  /\ opts = DefaultOpts
  /\ pc = "text"
  /\ bg = <<>>
  /\ q = <<>>
  /\ qHead = 0
  /\ result = Idle
  /\ sIn \in ColourInputs(path)
  /\ sOut = Idle
  /\ argv = Idle
  /\ files = <<>>
  /\ results = <<>>
  /\ cursor = 0
  /\ NoPage

\* main: parseColor(text), which returns a colour or throws
ParseColorBatch ==
  /\ pc = "text"
  /\ path = "batch"
  /\ LET c == ParseColor(sIn.text)
     IN sOut' = IF c.ok THEN [raised |-> FALSE, rgb |-> c.rgb, nan |-> {}]
                ELSE [raised |-> TRUE, rgb |-> Black, nan |-> {}]
  /\ pc' = "parsed"
  /\ UNCHANGED <<path, img, opts, bg, q, qHead, result, sIn, argv, files, results, cursor>>
  /\ UNCHANGED pageVars

\* getOpts: parseHexColor(bgColor)
ParseHexColorWeb ==
  /\ pc = "text"
  /\ path = "web"
  /\ sOut' = ParseHexColor(sIn.text)
  /\ pc' = "parsed"
  /\ UNCHANGED <<path, img, opts, bg, q, qHead, result, sIn, argv, files, results, cursor>>
  /\ UNCHANGED pageVars

NextColor == ParseColorBatch \/ ParseHexColorWeb

SpecColor == InitColor /\ [][NextColor]_vars

Clamp255(n) == IF n < 0 THEN 0 ELSE IF n > 255 THEN 255 ELSE n

\* C15: white, black, 3- and 6-digit hex, rgb(r,g,b) and bare r,g,b are
\* accepted with the colour they denote; in the numeric forms a channel value
\* outside 0 .. 255 is clamped into that range, never rejected; a text of any
\* other syntax raises an error and returns no colour.
C15_ParseColor ==
  pc = "parsed" =>
     /\ sIn.form \in {"name", "hex"} =>
          ~sOut.raised /\ sOut.nan = {} /\ sOut.rgb = sIn.want
     /\ sIn.form = "numeric" =>
          /\ ~sOut.raised
          /\ sOut.nan = {}
          /\ sOut.rgb = [i \in 1 .. 3 |-> Clamp255(sIn.want[i])]
     /\ sIn.form = "other" => sOut.raised

(***************************************************************************)
(* SpecPage: the browser page as its event handlers run, one handler (or   *)
(* one resumption after an await) at a time.  Picking or dropping a file   *)
(* calls handleFile, which suspends at `await loadFile(file)`; the loads   *)
(* in flight finish in any order.  debouncedRun keeps one timeout of Delay *)
(* milliseconds; time passes in steps of at most StepMs and never beyond   *)
(* a timeout that is due.  The plain option inputs all have the handler    *)
(* debouncedRun and are represented by the threshold input; the            *)
(* background colour input and the segMatchesBg checkbox have handlers of  *)
(* their own.  The decoded and fitted pixel buffer of a file is file.img.  *)
(***************************************************************************)
Delay == 200
MaxSelect == 2
MaxEvents == 2
TicksPerDelay == 2

StepMs == Delay \div TicksPerDelay

PageFiles ==
  { [name |-> "a", readable |-> TRUE, img |-> MkImage(2, 1, Wh, Bk, {1})],
    [name |-> "b", readable |-> TRUE, img |-> MkImage(1, 2, Wh, Ye, {0})],
    [name |-> "x", readable |-> FALSE, img |-> NoSizeImage] }

ThresholdValues == {DefaultThreshold, 21000}

\* getOpts(): the options as the inputs now read
GetOpts(inp) ==
  [ DefaultOpts EXCEPT
      !.backgrounds = <<inp.bgColor>>,
      !.segBg = IF inp.segMatchesBg THEN inp.bgColor ELSE inp.segColor,
      !.threshold = inp.threshold ]

\* renderOverlay(mask, width, height) on the cleared overlay canvas
RenderOverlay(mask, w, h) ==
  [kind |-> "overlay", w |-> w, h |-> h, on |-> IF mask.kind = "mask" THEN mask.on ELSE {}]

\* refreshDisplay(): the base canvas and the overlay, drawn again
RefreshDisplay(ci, cm, inp, d) ==
  IF ci.kind # "image" THEN d
  ELSE [ d EXCEPT
           !.base = [kind |-> "base", w |-> ci.imageData.w, h |-> ci.imageData.h,
                     bg |-> inp.bgColor],
           !.overlay = IF inp.showHighlight
                       THEN RenderOverlay(cm, ci.imageData.w, ci.imageData.h)
                       ELSE RenderOverlay(Idle, ci.imageData.w, ci.imageData.h) ]

\* analyze's return value { stats, pass, mask: failing }, mask of `total` entries
AnalyzeReturn(r, total) ==
  [ stats |-> [ count |-> r.perBg[1].stats.count, pX |-> r.perBg[1].stats.pX,
                median |-> r.perBg[1].stats.median, min |-> r.perBg[1].stats.min,
                pctBelow |-> r.perBg[1].stats.pctBelow, bandCount |-> r.maskCount ],
    pass |-> r.overall,
    mask |-> [kind |-> "mask", len |-> total, on |-> r.failing] ]

\* what analyze hands to runAnalysis for the pixel buffer and the inputs' reading
AnalyzePage(im, inp) == AnalyzeReturn(AnalyzeResult(im, GetOpts(inp)), Total(im))

\* every reading the inputs can have, and every pixel buffer a load can yield
PageInputs ==
  [ bgColor : {White, Black}, segColor : {White, Black}, segMatchesBg : BOOLEAN,
    threshold : ThresholdValues, showHighlight : BOOLEAN ]

PageImages == { f.img : f \in { g \in PageFiles : g.readable } }

\* analyze is a pure function of the pixel buffer and the options: its results,
\* computed once for each buffer and each reading of the inputs
AnalysisTable == [ k \in PageImages \X PageInputs |-> AnalyzePage(k[1], k[2]) ] @@ <<>>

AnalysisOf(im, inp) == AnalysisTable[<<im, inp>>]

\* runAnalysis() once analyze returned r: currentMask, updateStats,
\* refreshDisplay, setStatus
ShowResult(ci, inp, d, r) ==
  [ currentMask |-> r.mask,
    display |-> [ RefreshDisplay(ci, r.mask, inp, [d EXCEPT !.stats = r.stats, !.pass = r.pass])
                    EXCEPT !.status = IF r.pass THEN "Pass" ELSE "Fail" ] ]

\* runAnalysis(): the new currentMask and display
RunAnalysis(ci, cm, inp, d) ==
  IF ci.kind # "image" THEN [currentMask |-> cm, display |-> d]
  ELSE ShowResult(ci, inp, d, AnalysisOf(ci.imageData, inp))

\* DebouncedRun that sets a new timeout without clearing the one it holds
DebouncedRunNoClear(tm) ==
  [ t |-> tm.next,
    next |-> tm.next + 1,
    pending |-> tm.pending \cup { [id |-> tm.next, due |-> Delay] } ]

\* the function debounce returns: if (t) clearTimeout(t); t = setTimeout(fn, delay)
DebouncedRun(tm) ==
  [ t |-> tm.next,
    next |-> tm.next + 1,
    pending |-> { p \in tm.pending : tm.t = 0 \/ p.id # tm.t }
                  \cup { [id |-> tm.next, due |-> Delay] } ]

\* an option event: the burst it belongs to, and the clock started again
Noted(h, ci, tm) ==
  [ h EXCEPT !.events = @ + 1,
             !.burst = IF tm.pending # {} THEN @ + 1 ELSE 1,
             !.elapsed = 0,
             !.runs = 0,
             !.ranAt = 0,
             !.armed = (ci.kind = "image") ]

InitPage ==
  /\ path = "web"
  /\ img = NoSizeImage
  /\ opts = DefaultOpts
  /\ pc = "page"
  /\ bg = <<>>
  /\ q = <<>>
  /\ qHead = 0
  /\ result = Idle
  /\ sIn = Idle
  /\ sOut = Idle
  /\ argv = Idle
  /\ files = <<>>
  /\ results = <<>>
  /\ cursor = 0
  /\ currentImage = Idle
  /\ currentMask = Idle
  /\ inputs = [bgColor |-> White, segColor |-> White, segMatchesBg |-> TRUE,
               threshold |-> DefaultThreshold, showHighlight |-> TRUE]
  /\ display = [status |-> "", fileName |-> "", stats |-> Idle, pass |-> FALSE,
                base |-> Idle, overlay |-> Idle]
  /\ loading = {}
  /\ timer = [t |-> 0, next |-> 1, pending |-> {}]
  /\ hist = [selected |-> 0, last |-> Idle, allReadable |-> TRUE, overlapped |-> FALSE, events |-> 0, burst |-> 0,
             elapsed |-> 0, runs |-> 0, ranAt |-> 0, armed |-> FALSE]

\* fileInput change / dropZone drop: handleFile(file) up to its await
SelectFile ==
  /\ hist.selected < MaxSelect
  /\ \E f \in PageFiles :
       /\ loading' = loading \cup { [id |-> hist.selected + 1, file |-> f] }
       /\ hist' = [hist EXCEPT !.selected = @ + 1,
                               !.last = [kind |-> "file", name |-> f.name, img |-> f.img],
                               !.allReadable = @ /\ f.readable,
                               !.overlapped = @ \/ loading # {}]
  /\ display' = [display EXCEPT !.status = "Loading image..."]
  /\ UNCHANGED <<currentImage, currentMask, inputs, timer>>
  /\ UNCHANGED engineVars

\* handleFile after `await loadFile(file)` resolved: currentImage, then runAnalysis()
LoadResolved ==
  /\ \E l \in loading :
       /\ l.file.readable
       /\ currentImage' = [kind |-> "image", imageData |-> l.file.img, name |-> l.file.name]
       /\ \E ran \in { RunAnalysis(currentImage', currentMask, inputs,
                                    [display EXCEPT !.fileName = l.file.name,
                                                    !.status = "Ready to analyze."]) } :
            /\ currentMask' = ran.currentMask
            /\ display' = ran.display
       /\ loading' = loading \ {l}
  /\ UNCHANGED <<inputs, timer, hist>>
  /\ UNCHANGED engineVars

\* handleFile after loadFile rejected: the catch sets the status
LoadRejected ==
  /\ \E l \in loading :
       /\ ~l.file.readable
       /\ loading' = loading \ {l}
  /\ display' = [display EXCEPT !.status = "Failed to load image."]
  /\ UNCHANGED <<currentImage, currentMask, inputs, timer, hist>>
  /\ UNCHANGED engineVars

\* thresholdInput input (and the other inputs whose listener is debouncedRun)
ThresholdInput ==
  /\ hist.events < MaxEvents
  /\ \E v \in ThresholdValues : inputs' = [inputs EXCEPT !.threshold = v]
  /\ timer' = DebouncedRun(timer)
  /\ hist' = Noted(hist, currentImage, timer)
  /\ UNCHANGED <<currentImage, currentMask, display, loading>>
  /\ UNCHANGED engineVars

\* bgColorInput input: segColor follows if tied, refreshDisplay(), debouncedRun()
BgColorInput ==
  /\ hist.events < MaxEvents
  /\ \E c \in {White, Black} :
       /\ inputs' = [inputs EXCEPT !.bgColor = c,
                                   !.segColor = IF inputs.segMatchesBg THEN c ELSE @]
       /\ display' = RefreshDisplay(currentImage, currentMask, inputs', display)
  /\ timer' = DebouncedRun(timer)
  /\ hist' = Noted(hist, currentImage, timer)
  /\ UNCHANGED <<currentImage, currentMask, loading>>
  /\ UNCHANGED engineVars

\* segMatchesBg change: segColor follows if now tied, debouncedRun()
SegMatchesBgChange ==
  /\ hist.events < MaxEvents
  /\ inputs' = [inputs EXCEPT !.segMatchesBg = ~@,
                              !.segColor = IF ~inputs.segMatchesBg THEN inputs.bgColor ELSE @]
  /\ timer' = DebouncedRun(timer)
  /\ hist' = Noted(hist, currentImage, timer)
  /\ UNCHANGED <<currentImage, currentMask, display, loading>>
  /\ UNCHANGED engineVars

\* showHighlightInput change: refreshDisplay()
ShowHighlightChange ==
  /\ inputs' = [inputs EXCEPT !.showHighlight = ~@]
  /\ display' = RefreshDisplay(currentImage, currentMask, inputs', display)
  /\ UNCHANGED <<currentImage, currentMask, loading, timer, hist>>
  /\ UNCHANGED engineVars

\* runBtn click: runAnalysis()
RunClick ==
  /\ \E ran \in { RunAnalysis(currentImage, currentMask, inputs, display) } :
       /\ currentMask' = ran.currentMask
       /\ display' = ran.display
  /\ UNCHANGED <<currentImage, inputs, loading, timer, hist>>
  /\ UNCHANGED engineVars

\* a timeout that is due runs runAnalysis
TimerFires ==
  /\ \E p \in timer.pending :
       /\ p.due = 0
       /\ timer' = [timer EXCEPT !.pending = @ \ {p}]
  /\ \E ran \in { RunAnalysis(currentImage, currentMask, inputs, display) } :
       /\ currentMask' = ran.currentMask
       /\ display' = ran.display
  /\ hist' = [hist EXCEPT !.runs = IF currentImage.kind = "image" THEN @ + 1 ELSE @,
                          !.ranAt = hist.elapsed]
  /\ UNCHANGED <<currentImage, inputs, loading>>
  /\ UNCHANGED engineVars

\* time passes, up to the next timeout that is due
TimePasses ==
  /\ \A p \in timer.pending : p.due > 0
  /\ hist.elapsed <= Delay
  /\ LET dues == { p.due : p \in timer.pending } \cup {StepMs}
         adv == CHOOSE d \in dues : \A e \in dues : d <= e
     IN /\ timer' = [timer EXCEPT !.pending = { [id |-> p.id, due |-> p.due - adv] : p \in @ }]
        /\ hist' = [hist EXCEPT !.elapsed = @ + adv]
  /\ UNCHANGED <<currentImage, currentMask, inputs, display, loading>>
  /\ UNCHANGED engineVars

NextPage ==
  \/ SelectFile
  \/ LoadResolved
  \/ LoadRejected
  \/ ThresholdInput
  \/ BgColorInput
  \/ SegMatchesBgChange
  \/ ShowHighlightChange
  \/ RunClick
  \/ TimerFires
  \/ TimePasses

SpecPage == InitPage /\ [][NextPage]_vars

LastSelected == hist.last

\* C18: when file A and then file B were picked while A was still loading and
\* both loads have ended, the current image, the file name shown and (once no
\* re-analysis is pending) the statistics and verdict shown are those of B,
\* whichever load ended first.
C18_LastSelectedWins ==
  ( /\ hist.overlapped
    /\ loading = {}
    /\ hist.allReadable ) =>
     /\ currentImage.kind = "image"
     /\ currentImage.name = LastSelected.name
     /\ currentImage.imageData = LastSelected.img
     /\ display.fileName = LastSelected.name
     /\ timer.pending = {} =>
          /\ display.stats = AnalysisOf(LastSelected.img, inputs).stats
          /\ display.pass = AnalysisOf(LastSelected.img, inputs).pass

\* C19: a burst of option events, each within Delay of the one before, is
\* followed by one analysis, run Delay after its last event; and whenever no
\* timeout is pending and no load is in flight, the statistics, the verdict and
\* the failing-pixel mask shown are those of analyze on the current image with
\* the options as the inputs read, the mask having the size of that image.
C19_DebouncedReanalysis ==
  /\ hist.runs <= 1
  /\ hist.runs = 1 => hist.ranAt = Delay
  /\ (hist.events > 0 /\ hist.armed /\ hist.elapsed > Delay) => hist.runs = 1
  /\ (timer.pending = {} /\ loading = {} /\ currentImage.kind = "image") =>
       LET r == AnalysisOf(currentImage.imageData, inputs)
       IN /\ display.stats = r.stats
          /\ display.pass = r.pass
          /\ currentMask = r.mask
          /\ currentMask.len = Total(currentImage.imageData)
          /\ display.overlay.w = currentImage.imageData.w
          /\ display.overlay.h = currentImage.imageData.h
          /\ display.overlay.on = IF inputs.showHighlight THEN r.mask.on ELSE {}

\* a burst of two events was followed by its one analysis, which changed the
\* verdict shown for the loaded image
C19_Witness ==
  /\ currentImage.kind = "image"
  /\ hist.armed
  /\ hist.burst >= 2
  /\ hist.runs = 1
  /\ hist.ranAt = Delay
  /\ timer.pending = {}
  /\ loading = {}
  /\ inputs.threshold # DefaultThreshold
  /\ display.stats = AnalysisOf(currentImage.imageData, inputs).stats
  /\ ~display.pass

====
